---- MODULE Spec2Model ----
(***************************************************************************)
(* A model of the lottery number pipeline of nist-beacon-rng:              *)
(* LotteryGenerator (hex decoding, HMAC seed derivation, the ChaCha20-like *)
(* generator, the Fisher-Yates sampler, the validator and the error        *)
(* wrapper) as a state machine of asynchronous calls on one instance.      *)
(*                                                                         *)
(* Representation.  TLC's integers are 32-bit signed, so an unsigned       *)
(* 32-bit word (an element of a Uint32Array) is the pair <<hi, lo>> of its *)
(* 16-bit halves; the arithmetic below is exact modulo 2^32.  A JavaScript *)
(* string is the sequence of its characters, a Uint8Array the sequence of  *)
(* its bytes, an array arr the sequence with arr[i] at position i + 1.     *)
(***************************************************************************)
EXTENDS Integers, Sequences, FiniteSets, TLC

VARIABLES
  hmac,      \* the platform's HMAC-SHA256: <<key bytes, message>> -> 32-byte digest
  args,      \* per call: the entry point and its arguments, NoArgs before the call
  dpc,       \* per call: where its deriveSeed invocation stands
  key,       \* per call: the CryptoKey local of deriveSeed (its raw bytes)
  seedP,     \* per call: the promise deriveSeed returned (seedPromise)
  gpc,       \* per call: where its generateUniqueNumbers invocation stands
  gen,       \* per call: the closure state of createCSPRNG (state, buffer, bufferIndex)
  pool,      \* per call: the pool array of generateUniqueNumbers
  inner,     \* per call: the promise generateUniqueNumbers returned
  outer,     \* per call: the promise generate649Numbers / generateLottoMaxNumbers returned
  valIn,     \* the arguments of a stand-alone validateNumbers application
  valOut,    \* its outcome
  net,       \* a fetchLatestBeacon call: its position, the clock, the timer, its promise
  stream,    \* a generator closure observed draw by draw
  shuf,      \* a generateUniqueNumbers body observed iteration by iteration
  ui         \* LotteryApp: the page and the position of its generateNumbers run

vars == <<hmac, args, dpc, key, seedP, gpc, gen, pool, inner, outer, valIn, valOut,
          net, stream, shuf, ui>>

\* What the calls on a LotteryGenerator never touch.
restVars == <<net, stream, shuf, ui>>

callVars == <<hmac, args, dpc, key, seedP, gpc, gen, pool, inner, outer>>

(***************************************************************************)
(* Binding a value.  TLC may evaluate a LET definition or an operator      *)
(* argument anew at each of its uses; a variable bound over a singleton is *)
(* evaluated once.  Bind(e, F) is F(e) with e evaluated first.             *)
(***************************************************************************)
The(S) == CHOOSE v \in S : TRUE

Bind(e, F(_)) == The({F(v) : v \in {e}})

(***************************************************************************)
(* Unsigned 32-bit words.                                                  *)
(***************************************************************************)
Half == 256 * 256

W32(hi, lo) == <<hi, lo>>

Zero32 == W32(0, 0)

One32 == W32(0, 1)

\* (a + b) >>> 0
Add32(a, b) ==
  LET lo == a[2] + b[2]
  IN  W32((a[1] + b[1] + (lo \div Half)) % Half, lo % Half)

RECURSIVE XorBits(_, _, _)
XorBits(a, b, n) ==
  IF n = 0 THEN 0 ELSE ((a + b) % 2) + 2 * XorBits(a \div 2, b \div 2, n - 1)

\* The XOR of two bytes, tabulated once.
XorByte == [a \in 0..255 |-> [b \in 0..255 |-> XorBits(a, b, 8)]]

Xor16(a, b) == XorByte[a \div 256][b \div 256] * 256 + XorByte[a % 256][b % 256]

\* a ^ b on Uint32Array elements
Xor32(a, b) == W32(Xor16(a[1], b[1]), Xor16(a[2], b[2]))

\* ((w << n) | (w >>> (32 - n))) >>> 0, for 0 < n <= 16
Rotl32(w, n) ==
  IF n = 16 THEN W32(w[2], w[1])
  ELSE W32(((w[1] * (2 ^ n)) % Half) + (w[2] \div (2 ^ (16 - n))),
           ((w[2] * (2 ^ n)) % Half) + (w[1] \div (2 ^ (16 - n))))

(***************************************************************************)
(* quarterRound and chachaBlock.                                           *)
(***************************************************************************)
\* state[x] = (state[x] + state[y]) >>> 0
AddInto(x, y, state) == [state EXCEPT ![x] = Add32(state[x], state[y])]

\* state[z] ^= state[x]; state[z] = ((state[z] << n) | (state[z] >>> (32 - n))) >>> 0
XorRotate(z, x, n, state) ==
  Bind(Xor32(state[z], state[x]), LAMBDA w : [state EXCEPT ![z] = Rotl32(w, n)])

\* The three statements of one line group of quarterRound.
AddXorRotate(x, y, z, n, state) ==
  Bind(AddInto(x, y, state), LAMBDA s : XorRotate(z, x, n, s))

quarterRound(a, b, c, d, state) ==
  Bind(AddXorRotate(a, b, d, 16, state), LAMBDA s1 :
  Bind(AddXorRotate(c, d, b, 12, s1), LAMBDA s2 :
  Bind(AddXorRotate(a, b, d, 8, s2), LAMBDA s3 :
       AddXorRotate(c, d, b, 7, s3))))

\* The double round with its last diagonal taken as the column (3, 7, 11, 15).
MutantColumnTwice(working) ==
  Bind(quarterRound(0, 4, 8, 12, working), LAMBDA c1 :
  Bind(quarterRound(1, 5, 9, 13, c1), LAMBDA c2 :
  Bind(quarterRound(2, 6, 10, 14, c2), LAMBDA c3 :
  Bind(quarterRound(3, 7, 11, 15, c3), LAMBDA c4 :
  Bind(quarterRound(0, 5, 10, 15, c4), LAMBDA d1 :
  Bind(quarterRound(1, 6, 11, 12, d1), LAMBDA d2 :
  Bind(quarterRound(2, 7, 8, 13, d2), LAMBDA d3 :
       quarterRound(3, 7, 11, 15, d3))))))))

\* One iteration of the loop of chachaBlock: four column rounds, four diagonal rounds.
DoubleRound(working) ==
  Bind(quarterRound(0, 4, 8, 12, working), LAMBDA c1 :
  Bind(quarterRound(1, 5, 9, 13, c1), LAMBDA c2 :
  Bind(quarterRound(2, 6, 10, 14, c2), LAMBDA c3 :
  Bind(quarterRound(3, 7, 11, 15, c3), LAMBDA c4 :
  Bind(quarterRound(0, 5, 10, 15, c4), LAMBDA d1 :
  Bind(quarterRound(1, 6, 11, 12, d1), LAMBDA d2 :
  Bind(quarterRound(2, 7, 8, 13, d2), LAMBDA d3 :
       quarterRound(3, 4, 9, 14, d3))))))))

\* for (let i = 0; i < 10; i++) { ... }, from iteration i on.
RECURSIVE RoundsLoop(_, _)
RoundsLoop(working, i) ==
  IF i < 10
  THEN Bind(DoubleRound(working), LAMBDA w : RoundsLoop(w, i + 1))
  ELSE working

\* The output array chachaBlock writes; input is left as it is.
chachaBlock(input) ==
  Bind(RoundsLoop(input, 0), LAMBDA working :
       [i \in 0..15 |-> Add32(working[i], input[i])])

(***************************************************************************)
(* createCSPRNG: the closure state and the function it returns.            *)
(***************************************************************************)
\* seed[k] of a Uint8Array; an index past the end reads undefined, which | and << take as 0.
SeedByte(seed, k) == IF k < Len(seed) THEN seed[k + 1] ELSE 0

\* The seed bytes of a word read most significant byte first.
MutantBigEndian(seed, i) ==
  W32(SeedByte(seed, 4 * i) * 256 + SeedByte(seed, 4 * i + 1),
      SeedByte(seed, 4 * i + 2) * 256 + SeedByte(seed, 4 * i + 3))

\* (seed[4i] | seed[4i+1] << 8 | seed[4i+2] << 16 | seed[4i+3] << 24) >>> 0
SeedWord(seed, i) ==
  W32(SeedByte(seed, 4 * i + 3) * 256 + SeedByte(seed, 4 * i + 2),
      SeedByte(seed, 4 * i + 1) * 256 + SeedByte(seed, 4 * i))

\* "expa", "nd 3", "2-by", "te k": 0x61707865, 0x3320646e, 0x79622d32, 0x6b206574
ChaChaConstants ==
  <<W32(24944, 30821), W32(13088, 25710), W32(31074, 11570), W32(27424, 25972)>>

\* The state array after the initialisation of createCSPRNG.
InitialState(seed) ==
  [i \in 0..15 |->
     IF i < 8 THEN (IF i * 4 < Len(seed) THEN SeedWord(seed, i) ELSE Zero32)
     ELSE IF i < 12 THEN ChaChaConstants[i - 7]
     ELSE Zero32]

\* let bufferIndex = 16
InitialBufferIndex == 16

\* createCSPRNG with bufferIndex kept across calls instead of being a local of
\* each: the cursor starts where an earlier call left it.
MutantCursorKept(seed) ==
  [state       |-> InitialState(seed),
   buffer      |-> [i \in 0..15 |-> Zero32],
   bufferIndex |-> IF \E c \in DOMAIN gen : gen[c].bufferIndex >= 0
                   THEN gen[CHOOSE c \in DOMAIN gen : gen[c].bufferIndex >= 0].bufferIndex
                   ELSE InitialBufferIndex]

\* What the closure captures when createCSPRNG returns.
createCSPRNG(seed) ==
  [state       |-> InitialState(seed),
   buffer      |-> [i \in 0..15 |-> Zero32],
   bufferIndex |-> InitialBufferIndex]

\* The increment without its carry into state[13].
MutantNoCarry(state) == [state EXCEPT ![12] = Add32(state[12], One32)]

\* state[12] = (state[12] + 1) >>> 0; if (state[12] === 0) state[13] = (state[13] + 1) >>> 0
IncrementCounter(state) ==
  LET low == Add32(state[12], One32)
  IN  IF low = Zero32
      THEN [state EXCEPT ![12] = low, ![13] = Add32(state[13], One32)]
      ELSE [state EXCEPT ![12] = low]

\* The digests the model lets HMAC-SHA256 return, and a seed shorter than 32 bytes.
DigestA == [k \in 1..32 |-> k - 1]

DigestB == [k \in 1..32 |-> 255]

ShortSeed == <<7, 9>>

Digests == {DigestA, DigestB}

SampleSeeds == Digests \cup {ShortSeed}

\* chachaBlock is a function of its input alone; its value on the first blocks
\* of the seeds above is tabulated once and looked up from then on.
BlockInputs ==
  {[InitialState(seed) EXCEPT ![12] = W32(0, n)] : seed \in SampleSeeds, n \in 0..3} \cup
  {[InitialState(seed) EXCEPT ![12] = W32(Half - 1, Half - n)] :
     seed \in SampleSeeds, n \in 1..3} \cup
  {[InitialState(seed) EXCEPT ![12] = W32(0, n), ![13] = One32] :
     seed \in SampleSeeds, n \in 0..1}

BlockTable == [input \in BlockInputs |-> chachaBlock(input)]

\* this.chachaBlock(state, buffer): the new content of buffer.
Block(input) == IF input \in BlockInputs THEN BlockTable[input] ELSE chachaBlock(input)

\* chachaBlock with `working` the input array itself and not a copy of it: the
\* rounds run on the input, and the final loop adds each word to itself.
MutantWorkingShared(input) ==
  Bind(RoundsLoop(input, 0), LAMBDA working :
       [input  |-> working,
        output |-> [i \in 0..15 |-> Add32(working[i], working[i])]])

\* this.chachaBlock(input, output): the two arrays after the call.  The rounds
\* run on `working = new Uint32Array(input)`, a copy, and the only other writes
\* are those to output.
chachaBlockCall(input) == [input |-> input, output |-> Block(input)]

\* The refill taken one word early.
MutantRefillEarly(g) ==
  IF g.bufferIndex >= 15
  THEN Bind(chachaBlockCall(g.state), LAMBDA arrays :
            [state       |-> IncrementCounter(arrays.input),
             buffer      |-> arrays.output,
             bufferIndex |-> 0])
  ELSE g

\* if (bufferIndex >= 16) { chachaBlock(state, buffer); increment; bufferIndex = 0 }
Refill(g) ==
  IF g.bufferIndex >= 16
  THEN Bind(chachaBlockCall(g.state), LAMBDA arrays :
            [state       |-> IncrementCounter(arrays.input),
             buffer      |-> arrays.output,
             bufferIndex |-> 0])
  ELSE g

\* One call of the returned function: the closure state after it and
\* value = buffer[bufferIndex++]; the call returns value / 2^32.
Draw(g) ==
  Bind(Refill(g), LAMBDA r :
       [gen   |-> [r EXCEPT !.bufferIndex = r.bufferIndex + 1],
        value |-> r.buffer[r.bufferIndex]])

\* Math.floor((value / 2^32) * n): value / 2^32 and its product with n are exact
\* in a double while value * n < 2^53, so the result is floor(value * n / 2^32).
FloorScaled(value, n) ==
  (value[1] * n + ((value[2] * n) \div Half)) \div Half

(***************************************************************************)
(* generateUniqueNumbers: pool, shuffle, slice and sort.                   *)
(***************************************************************************)
\* Array.from({ length: max - min + 1 }, (_, i) => i + min); a negative length gives [].
MakePool(min, max) ==
  [k \in 1..(IF max - min + 1 > 0 THEN max - min + 1 ELSE 0) |-> (k - 1) + min]

\* pool[i] = pool[j] alone: the element at i is overwritten, not exchanged.
MutantOverwrite(p, i, j) == [p EXCEPT ![i + 1] = p[j + 1]]

\* [pool[i], pool[j]] = [pool[j], pool[i]]
Swap(p, i, j) == [p EXCEPT ![i + 1] = p[j + 1], ![j + 1] = p[i + 1]]

\* One iteration of the shuffle loop; the loop state is <<pool, rng, i>>.
ShuffleStep(st) ==
  Bind(Draw(st.rng), LAMBDA d :
  Bind(FloorScaled(d.value, st.i + 1), LAMBDA j :
       [pool |-> Swap(st.pool, st.i, j), rng |-> d.gen, i |-> st.i - 1]))

\* The iterations i = st.i, st.i - 1, ..., stop + 1 of the loop, in that order:
\* the upper half of them first, then the lower half from the state they leave.
RECURSIVE ShuffleDown(_, _)
ShuffleDown(st, stop) ==
  IF st.i <= stop THEN st
  ELSE IF st.i = stop + 1 THEN ShuffleStep(st)
  ELSE Bind(ShuffleDown(st, stop + ((st.i - stop) \div 2)), LAMBDA upper :
            ShuffleDown(upper, stop))

\* for (let i = pool.length - 1; i > 0; i--) { ... }
ShuffleLoop(st) == ShuffleDown(st, 0)

\* arr.slice(0, end): a negative end counts from the length.
\* slice with its end one short.
MutantSliceShort(arr, end) == SubSeq(arr, 1, end - 1)

Slice0(arr, end) ==
  LET n == Len(arr)
      e == IF end < 0 THEN (IF n + end > 0 THEN n + end ELSE 0)
           ELSE (IF end < n THEN end ELSE n)
  IN  SubSeq(arr, 1, e)

\* Insert x into an ascending sequence, before the first element greater than it.
RECURSIVE InsertSorted(_, _)
InsertSorted(x, s) ==
  IF s = <<>> THEN <<x>>
  ELSE IF x - Head(s) < 0 THEN <<x>> \o s
  ELSE Bind(InsertSorted(x, Tail(s)), LAMBDA rest : <<Head(s)>> \o rest)

\* The sort left out.
MutantUnsorted(arr) == arr

\* arr.sort((a, b) => a - b)
RECURSIVE SortNumeric(_)
SortNumeric(arr) ==
  IF arr = <<>> THEN <<>>
  ELSE Bind(SortNumeric(Tail(arr)), LAMBDA sorted : InsertSorted(Head(arr), sorted))

\* The range check one off.
MutantRangeCheck(count, min, max) == count > (max - min + 2)

\* count > (max - min + 1)
RangeTooSmall(count, min, max) == count > (max - min + 1)

\* The part of generateUniqueNumbers after `await seedPromise`: the final pool
\* and closure state, and the value returned.
SampleRun(seed, count, min, max) ==
  Bind([pool |-> MakePool(min, max), rng |-> createCSPRNG(seed),
        i |-> Len(MakePool(min, max)) - 1], LAMBDA start :
  Bind(ShuffleLoop(start), LAMBDA fin :
       [pool |-> fin.pool, rng |-> fin.rng,
        value |-> SortNumeric(Slice0(fin.pool, count))]))

(***************************************************************************)
(* JavaScript numbers, as far as parseInt and validateNumbers meet them:   *)
(* NaN, or a multiple of one half (so 1.5 is a number that is no integer). *)
(***************************************************************************)
NaN == [nan |-> TRUE, twice |-> 0]

JsInt(n) == [nan |-> FALSE, twice |-> 2 * n]

JsHalves(h) == [nan |-> FALSE, twice |-> h]

\* a < b and a > b: false as soon as one side is NaN.
JsLess(a, b) == ~a.nan /\ ~b.nan /\ a.twice < b.twice

JsGreater(a, b) == ~a.nan /\ ~b.nan /\ a.twice > b.twice

\* Number.isInteger
JsIsInteger(a) == ~a.nan /\ a.twice % 2 = 0

(***************************************************************************)
(* Errors and promises.  An Error is its message and its errorType         *)
(* property ("none" when the property is absent).  A promise is pending,   *)
(* fulfilled with a value (an array or byte array) or rejected with an     *)
(* error.                                                                  *)
(***************************************************************************)
NoError == [errorType |-> "none", message |-> ""]

\* new Error(message)
NewError(message) == [errorType |-> "none", message |-> message]

Pending == [state |-> "pending", value |-> <<>>, error |-> NoError]

Fulfilled(v) == [state |-> "fulfilled", value |-> v, error |-> NoError]

Rejected(e) == [state |-> "rejected", value |-> <<>>, error |-> e]

\* createError(message, originalError); everything thrown in this class is an Error.
createError(message, originalError) ==
  [errorType |-> "generation", message |-> message \o ": " \o originalError.message]

(***************************************************************************)
(* hexToBytes.                                                             *)
(***************************************************************************)
HexDigitChars == <<"0", "1", "2", "3", "4", "5", "6", "7", "8", "9",
                   "a", "b", "c", "d", "e", "f">>

HexUpperChars == <<"A", "B", "C", "D", "E", "F">>

IsHexDigit(ch) ==
  \/ \E v \in 1..16 : HexDigitChars[v] = ch
  \/ \E v \in 1..6 : HexUpperChars[v] = ch

HexValue(ch) ==
  IF \E v \in 1..16 : HexDigitChars[v] = ch
  THEN (CHOOSE v \in 1..16 : HexDigitChars[v] = ch) - 1
  ELSE (CHOOSE v \in 1..6 : HexUpperChars[v] = ch) + 9

\* A character the regular expression \s matches (of those the model draws).
IsWhitespace(ch) == ch = " "

\* hex.replace(/\s/g, '')
StripWhitespace(hex) == SelectSeq(hex, LAMBDA ch : ~IsWhitespace(ch))

\* The longest prefix of s made of hex digits.
RECURSIVE DigitPrefix(_)
DigitPrefix(s) ==
  IF s # <<>> /\ IsHexDigit(Head(s)) THEN <<Head(s)>> \o DigitPrefix(Tail(s)) ELSE <<>>

RECURSIVE DigitsValue(_, _)
DigitsValue(s, acc) ==
  IF s = <<>> THEN acc ELSE DigitsValue(Tail(s), acc * 16 + HexValue(Head(s)))

RECURSIVE TrimLeft(_)
TrimLeft(s) == IF s # <<>> /\ IsWhitespace(Head(s)) THEN TrimLeft(Tail(s)) ELSE s

\* parseInt(s, 16): leading white space, a sign and a 0x prefix are skipped, the
\* digits up to the first character that is no hex digit are read, and the
\* result is NaN only when no digit was read.
ParseInt16(s) ==
  LET t      == TrimLeft(s)
      signed == t # <<>> /\ Head(t) \in {"+", "-"}
      u      == IF signed THEN Tail(t) ELSE t
      v      == IF Len(u) >= 2 /\ u[1] = "0" /\ u[2] \in {"x", "X"}
                THEN SubSeq(u, 3, Len(u)) ELSE u
      z      == DigitPrefix(v)
      n      == DigitsValue(z, 0)
  IN  IF z = <<>> THEN NaN
      ELSE JsInt(IF signed /\ Head(t) = "-" THEN 0 - n ELSE n)

\* bytes[i / 2] = byte: a Uint8Array element keeps the value modulo 256.
ToUint8(num) == (num.twice \div 2) % 256

\* The iterations of the loop of hexToBytes with lo <= i < hi, taken by halves
\* to keep the evaluation shallow: the bytes they store, or the error thrown.
RECURSIVE DecodeRange(_, _, _)
DecodeRange(cleanHex, lo, hi) ==
  IF hi - lo <= 2
  THEN Bind(ParseInt16(SubSeq(cleanHex, lo + 1, lo + 2)), LAMBDA byte :
            IF byte.nan
            THEN [ok |-> FALSE, bytes |-> <<>>,
                  error |-> NewError("Invalid hex character in beacon value")]
            ELSE [ok |-> TRUE, bytes |-> <<ToUint8(byte)>>, error |-> NoError])
  ELSE Bind(DecodeRange(cleanHex, lo, lo + 2 * ((((hi - lo) \div 2) + 1) \div 2)),
            LAMBDA left :
              IF ~left.ok THEN left
              ELSE Bind(DecodeRange(cleanHex, lo + 2 * ((((hi - lo) \div 2) + 1) \div 2), hi),
                        LAMBDA right :
                          IF ~right.ok THEN right
                          ELSE [ok |-> TRUE, bytes |-> left.bytes \o right.bytes,
                                error |-> NoError]))

\* The loop of hexToBytes from index i on: the bytes, or the error thrown.
DecodePairs(cleanHex, i, bytes) ==
  IF i < Len(cleanHex)
  THEN Bind(DecodeRange(cleanHex, i, Len(cleanHex)), LAMBDA rest :
            IF rest.ok
            THEN [ok |-> TRUE, bytes |-> bytes \o rest.bytes, error |-> NoError]
            ELSE rest)
  ELSE [ok |-> TRUE, bytes |-> bytes, error |-> NoError]

hexToBytes(hex) ==
  Bind(StripWhitespace(hex), LAMBDA cleanHex :
       IF Len(cleanHex) % 2 # 0
       THEN [ok |-> FALSE, bytes |-> <<>>,
             error |-> NewError("Invalid hex string: odd length")]
       ELSE DecodePairs(cleanHex, 0, <<>>))

(***************************************************************************)
(* validateNumbers, on an array of JavaScript numbers.                     *)
(***************************************************************************)
\* new Set(numbers).size
SetSize(numbers) == Cardinality({numbers[k] : k \in 1..Len(numbers)})

\* validateNumbers without the Number.isInteger test.
MutantNoIntegerCheck(numbers, expectedCount, min, max) ==
  /\ Len(numbers) = expectedCount
  /\ SetSize(numbers) = expectedCount
  /\ \A k \in 1..Len(numbers) :
       ~JsLess(numbers[k], min) /\ ~JsGreater(numbers[k], max)

validateNumbers(numbers, expectedCount, min, max) ==
  IF Len(numbers) # expectedCount THEN FALSE
  ELSE IF SetSize(numbers) # expectedCount THEN FALSE
  ELSE IF \E k \in 1..Len(numbers) :
            \/ JsLess(numbers[k], min)
            \/ JsGreater(numbers[k], max)
            \/ ~JsIsInteger(numbers[k])
       THEN FALSE
  ELSE TRUE

(***************************************************************************)
(* Bounds and input sets.                                                  *)
(***************************************************************************)
\* Calls made on the one LotteryGenerator instance.
NumCalls == 2

\* Arguments of a direct generateUniqueNumbers call: count in -NegCount..MaxCount,
\* min in -MinSpan..MinSpan, max in 0..MaxTop.
NegCount == 1

MaxCount == 4

MinSpan == 1

MaxTop == 3

\* Arguments of a stand-alone validateNumbers: arrays of at most MaxValLen
\* numbers, each NaN or a multiple of 1/2 up to MaxTwice / 2.
MaxValLen == 2

MaxTwice == 4

Calls == 1..NumCalls

\* The beacon values handed to generate649Numbers / generateLottoMaxNumbers.
Entropies ==
  {<<>>, <<"0", "a">>, <<"1", "g">>, <<"a", "b", "c">>, <<"g", "1">>}

\* The non-empty keys importKey can be given, and the inputs of sign.
HmacKeys == {hexToBytes(e).bytes : e \in {x \in Entropies : hexToBytes(x).ok}} \ {<<>>}

HmacInputs == HmacKeys \X {"649", "max"}

\* The HMAC-SHA256 functions tried.  Under one of them the two purposes of a
\* key have the same digest and the two keys have different ones; under the
\* other the two purposes differ and the two keys agree.
HmacSamples ==
  {f \in [HmacInputs -> Digests] :
     /\ f[<<hexToBytes(<<"0", "a">>).bytes, "649">>] = DigestA
     /\ f[<<hexToBytes(<<"1", "g">>).bytes, "max">>] = DigestB
     /\ f[<<hexToBytes(<<"0", "a">>).bytes, "max">>] #
          f[<<hexToBytes(<<"1", "g">>).bytes, "649">>]}

\* this.generateUniqueNumbers(derivedSeed, 6, 1, 49)
Args649 == [count |-> 6, min |-> 1, max |-> 49]

\* this.generateUniqueNumbers(derivedSeed, 7, 1, 50)
ArgsMax == [count |-> 7, min |-> 1, max |-> 50]

SampleArgs ==
  {Args649, ArgsMax} \cup
  [count : (0 - NegCount)..MaxCount, min : (0 - MinSpan)..MinSpan, max : 0..MaxTop]

ValNumbers == {NaN} \cup {JsHalves(h) : h \in 0..MaxTwice}

ValBounds == {JsHalves(h) : h \in 0..MaxTwice}

ValArrays == UNION {[1..n -> ValNumbers] : n \in 0..MaxValLen}

(***************************************************************************)
(* State of a call.                                                        *)
(***************************************************************************)
NoArgs == [entry |-> "none", entropy |-> <<>>, purpose |-> "",
           count |-> 0, min |-> 0, max |-> 0]

NoGen == [state       |-> [i \in 0..15 |-> Zero32],
          buffer      |-> [i \in 0..15 |-> Zero32],
          bufferIndex |-> 0 - 1]

NoPool == [built |-> FALSE, items |-> <<>>]

NoValIn == [numbers |-> <<>>, expectedCount |-> 0, min |-> JsInt(0), max |-> JsInt(0)]

NoValOut == [run |-> FALSE, result |-> FALSE]

IdleCalls ==
  /\ args = [c \in Calls |-> NoArgs]
  /\ dpc = [c \in Calls |-> "none"]
  /\ key = [c \in Calls |-> <<>>]
  /\ seedP = [c \in Calls |-> Pending]
  /\ gpc = [c \in Calls |-> "none"]
  /\ gen = [c \in Calls |-> NoGen]
  /\ pool = [c \in Calls |-> NoPool]
  /\ inner = [c \in Calls |-> Pending]
  /\ outer = [c \in Calls |-> Pending]

\* The first call slot not yet used: calls are numbered in the order they are made.
IsNextCall(c) ==
  /\ args[c].entry = "none"
  /\ \A d \in Calls : d < c => args[d].entry # "none"

(***************************************************************************)
(* deriveSeed and generateUniqueNumbers up to their first await.           *)
(***************************************************************************)
\* deriveSeed(beacon, purpose) up to `await crypto.subtle.importKey(...)`: a throw
\* of hexToBytes rejects the promise the async function returns.
DeriveSeedStart(beacon) ==
  LET beaconBytes == hexToBytes(beacon)
  IN  IF beaconBytes.ok
      THEN [pc |-> "importKey", promise |-> Pending]
      ELSE [pc |-> "done", promise |-> Rejected(beaconBytes.error)]

\* `Cannot generate ${count} unique numbers from range ${min}-${max}`
RangeMessage(count, min, max) ==
  "Cannot generate " \o ToString(count) \o " unique numbers from range "
    \o ToString(min) \o "-" \o ToString(max)

\* generateUniqueNumbers(seedPromise, count, min, max) up to `await seedPromise`.
GenerateUniqueStart(count, min, max) ==
  IF RangeTooSmall(count, min, max)
  THEN [pc |-> "done", promise |-> Rejected(NewError(RangeMessage(count, min, max)))]
  ELSE [pc |-> "awaitSeed", promise |-> Pending]

\* What a call of an async function throws to its caller: nothing.  An exception
\* in its body settles the promise it returns and never reaches the caller's catch.
ThrownByAsyncCall(promise) == NoError

\* try { const derivedSeed = this.deriveSeed(...); return this.generateUniqueNumbers(...) }
\* catch (error) { throw this.createError(message, error) }: the promise of the
\* entry point once its body has run.  Without a throw the body returns the inner
\* promise, which the outer promise then follows (Adopt).
TryReturn(message, d, g) ==
  LET thrown == IF ThrownByAsyncCall(d.promise) # NoError
                THEN ThrownByAsyncCall(d.promise)
                ELSE ThrownByAsyncCall(g.promise)
  IN  IF thrown # NoError THEN Rejected(createError(message, thrown)) ELSE Pending

EntryCall(c, entry, message, seed, a) ==
  LET d == DeriveSeedStart(seed)
      g == GenerateUniqueStart(a.count, a.min, a.max)
  IN  /\ IsNextCall(c)
      /\ args' = [args EXCEPT ![c] = [entry |-> entry, entropy |-> seed, purpose |-> entry,
                                      count |-> a.count, min |-> a.min, max |-> a.max]]
      /\ dpc' = [dpc EXCEPT ![c] = d.pc]
      /\ seedP' = [seedP EXCEPT ![c] = d.promise]
      /\ gpc' = [gpc EXCEPT ![c] = g.pc]
      /\ inner' = [inner EXCEPT ![c] = g.promise]
      /\ outer' = [outer EXCEPT ![c] = TryReturn(message, d, g)]
      /\ UNCHANGED <<hmac, key, gen, pool, valIn, valOut, restVars>>

(***************************************************************************)
(* Actions.                                                                *)
(***************************************************************************)
generate649Numbers(c) ==
  \E seed \in Entropies :
    EntryCall(c, "649", "Failed to generate 6/49 numbers", seed, Args649)

generateLottoMaxNumbers(c) ==
  \E seed \in Entropies :
    EntryCall(c, "max", "Failed to generate Lotto Max numbers", seed, ArgsMax)

\* const key = await crypto.subtle.importKey('raw', beaconBytes, ...): the platform
\* rejects an empty HMAC key with a DataError; otherwise deriveSeed goes on to
\* `await crypto.subtle.sign('HMAC', key, purposeBytes)`.
ImportKeySettles(c) ==
  \E beaconBytes \in {hexToBytes(args[c].entropy).bytes} :
      /\ dpc[c] = "importKey"
      /\ IF beaconBytes = <<>>
         THEN /\ dpc' = [dpc EXCEPT ![c] = "done"]
              /\ seedP' = [seedP EXCEPT ![c] = Rejected(NewError("DataError"))]
              /\ UNCHANGED key
         ELSE /\ dpc' = [dpc EXCEPT ![c] = "sign"]
              /\ key' = [key EXCEPT ![c] = beaconBytes]
              /\ UNCHANGED seedP
      /\ UNCHANGED <<hmac, args, gpc, gen, pool, inner, outer, valIn, valOut, restVars>>

\* The key kept in a field shared by the calls instead of in a local of each
\* deriveSeed invocation: every call signs with the key of the earliest call
\* that holds one.
MutantCachedKey(c) ==
  key[CHOOSE d \in DOMAIN key :
        key[d] # <<>> /\ \A e \in DOMAIN key : key[e] # <<>> => d <= e]

\* The `key` constant of call c's deriveSeed invocation.
KeyOf(c) == key[c]

\* const signature = await crypto.subtle.sign(...); return new Uint8Array(signature)
SignSettles(c) ==
  /\ dpc[c] = "sign"
  /\ dpc' = [dpc EXCEPT ![c] = "done"]
  /\ seedP' = [seedP EXCEPT ![c] = Fulfilled(hmac[<<KeyOf(c), args[c].purpose>>])]
  /\ UNCHANGED <<hmac, args, key, gpc, gen, pool, inner, outer, valIn, valOut, restVars>>

\* generateUniqueNumbers from `const seed = await seedPromise` to its return: a
\* rejected seedPromise is rethrown by the await and rejects the inner promise.
ResumeGenerate(c) ==
  /\ gpc[c] = "awaitSeed"
  /\ seedP[c].state # "pending"
  /\ gpc' = [gpc EXCEPT ![c] = "done"]
  /\ IF seedP[c].state = "rejected"
     THEN /\ inner' = [inner EXCEPT ![c] = Rejected(seedP[c].error)]
          /\ UNCHANGED <<gen, pool>>
     ELSE \E run \in {SampleRun(seedP[c].value, args[c].count, args[c].min, args[c].max)} :
            /\ gen' = [gen EXCEPT ![c] = run.rng]
            /\ pool' = [pool EXCEPT ![c] = [built |-> TRUE, items |-> run.pool]]
            /\ inner' = [inner EXCEPT ![c] = Fulfilled(run.value)]
  /\ UNCHANGED <<hmac, args, dpc, key, seedP, outer, valIn, valOut, restVars>>

\* `return <promise>` in an async function: the outer promise takes the state of
\* the inner one once that has settled.
Adopt(c) ==
  /\ args[c].entry \in {"649", "max"}
  /\ outer[c].state = "pending"
  /\ inner[c].state # "pending"
  /\ outer' = [outer EXCEPT ![c] = inner[c]]
  /\ UNCHANGED <<hmac, args, dpc, key, seedP, gpc, gen, pool, inner, valIn, valOut, restVars>>

\* A direct call generateUniqueNumbers(seedPromise, count, min, max) with a
\* promise already fulfilled with seed.
CallGenerateUnique(c) ==
  \E seed \in SampleSeeds, a \in SampleArgs :
    LET g == GenerateUniqueStart(a.count, a.min, a.max)
    IN  /\ IsNextCall(c)
        /\ args' = [args EXCEPT ![c] = [entry |-> "unique", entropy |-> <<>>, purpose |-> "",
                                        count |-> a.count, min |-> a.min, max |-> a.max]]
        /\ seedP' = [seedP EXCEPT ![c] = Fulfilled(seed)]
        /\ gpc' = [gpc EXCEPT ![c] = g.pc]
        /\ inner' = [inner EXCEPT ![c] = g.promise]
        /\ UNCHANGED <<hmac, dpc, key, gen, pool, outer, valIn, valOut, restVars>>

\* A stand-alone application of validateNumbers.
Validate ==
  /\ ~valOut.run
  /\ valOut' = [run |-> TRUE,
                result |-> validateNumbers(valIn.numbers, valIn.expectedCount,
                                           valIn.min, valIn.max)]
  /\ UNCHANGED <<callVars, valIn, restVars>>

(***************************************************************************)
(* BeaconService.  A thrown value is a record of what the catch clause     *)
(* reads: whether it is an Error, its name, its message and its errorType  *)
(* property ("none" when absent).  A message is the sequence of the texts  *)
(* it is put together from.  A JSON value is a record with its kind.       *)
(***************************************************************************)
\* private static readonly TIMEOUT_MS = 10000
TIMEOUT_MS == 10000

\* pulse.outputValue.length < 64
MinOutputLength == 64

FailedToFetch == "Failed to fetch"

\* message.includes('Failed to fetch'): of the texts the model puts messages
\* together from, FailedToFetch alone contains these words.
IncludesFailedToFetch(message) == \E k \in 1..Len(message) : message[k] = FailedToFetch

NoThrow == [isError |-> FALSE, name |-> "none", message |-> <<>>, errorType |-> "none"]

\* An Error (or DOMException) with this name and message.
Thrown(name, message) ==
  [isError |-> TRUE, name |-> name, message |-> message, errorType |-> "none"]

\* A thrown value that is no Error.
NonError == [isError |-> FALSE, name |-> "", message |-> <<>>, errorType |-> "none"]

\* BeaconService.createError(message, type)
createBeaconError(message, type) ==
  [isError |-> TRUE, name |-> "Error", message |-> message, errorType |-> type]

\* catch (error) { ... } of fetchLatestBeacon: what it throws.
CatchFetchError(error) ==
  IF error.isError
  THEN IF error.name = "AbortError"
       THEN createBeaconError(<<"Request timeout - NIST Beacon service is not responding">>,
                              "network")
       ELSE IF IncludesFailedToFetch(error.message)
       THEN createBeaconError(<<"Network error - Unable to connect to NIST Beacon service">>,
                              "network")
       ELSE createBeaconError(<<"API Error: ">> \o error.message, "api")
  ELSE createBeaconError(<<"Unknown error occurred while fetching beacon data">>, "api")

JsonUndefined == [kind |-> "undefined", str |-> <<>>]

\* A number other than 0.
JsonNumber == [kind |-> "number", str |-> <<>>]

JsonString(str) == [kind |-> "string", str |-> str]

\* !v is false
Truthy(v) == v.kind \in {"number", "object"} \/ (v.kind = "string" /\ v.str # <<>>)

\* typeof v
TypeOf(v) == IF v.kind = "null" THEN "object" ELSE v.kind

\* A pulse that is no object, and one that is, with its two fields read.
PulseOfKind(kind) ==
  [kind |-> kind, outputValue |-> JsonUndefined, timeStamp |-> JsonUndefined]

PulseObject(outputValue, timeStamp) ==
  [kind |-> "object", outputValue |-> outputValue, timeStamp |-> timeStamp]

\* The value response.json() resolves with.
JsonData(kind, pulse) == [kind |-> kind, pulse |-> pulse]

\* /^[0-9A-Fa-f]+$/.test(str)
MatchesHexPattern(str) == str # <<>> /\ \A k \in 1..Len(str) : IsHexDigit(str[k])

\* validateBeaconResponse without its last test, of the length of outputValue.
MutantNoLengthCheck(data) ==
  IF ~Truthy(data) \/ TypeOf(data) # "object"
  THEN createBeaconError(<<"Invalid response format from NIST Beacon">>, "api")
  ELSE IF ~Truthy(data.pulse) \/ TypeOf(data.pulse) # "object"
  THEN createBeaconError(<<"Missing pulse data in beacon response">>, "api")
  ELSE IF ~Truthy(data.pulse.outputValue) \/ TypeOf(data.pulse.outputValue) # "string"
  THEN createBeaconError(<<"Missing or invalid outputValue in beacon response">>, "api")
  ELSE IF ~Truthy(data.pulse.timeStamp) \/ TypeOf(data.pulse.timeStamp) # "string"
  THEN createBeaconError(<<"Missing or invalid timeStamp in beacon response">>, "api")
  ELSE IF ~MatchesHexPattern(data.pulse.outputValue.str)
  THEN createBeaconError(<<"Invalid hex format in outputValue">>, "api")
  ELSE NoThrow

\* validateBeaconResponse(data): what it throws, NoThrow when it returns.
validateBeaconResponse(data) ==
  IF ~Truthy(data) \/ TypeOf(data) # "object"
  THEN createBeaconError(<<"Invalid response format from NIST Beacon">>, "api")
  ELSE IF ~Truthy(data.pulse) \/ TypeOf(data.pulse) # "object"
  THEN createBeaconError(<<"Missing pulse data in beacon response">>, "api")
  ELSE IF ~Truthy(data.pulse.outputValue) \/ TypeOf(data.pulse.outputValue) # "string"
  THEN createBeaconError(<<"Missing or invalid outputValue in beacon response">>, "api")
  ELSE IF ~Truthy(data.pulse.timeStamp) \/ TypeOf(data.pulse.timeStamp) # "string"
  THEN createBeaconError(<<"Missing or invalid timeStamp in beacon response">>, "api")
  ELSE IF ~MatchesHexPattern(data.pulse.outputValue.str)
  THEN createBeaconError(<<"Invalid hex format in outputValue">>, "api")
  ELSE IF Len(data.pulse.outputValue.str) < MinOutputLength
  THEN createBeaconError(<<"Insufficient entropy in outputValue">>, "api")
  ELSE NoThrow

\* The clock of the model advances TickMs at a time, up to MaxNow.
TickMs == 5000

MaxNow == 15000

Repeat(ch, n) == [k \in 1..n |-> ch]

\* Lengths of pulse.outputValue around the limit, and the strings tried: hex
\* digits only, or with a character that is none at the front or at the end.
OutputLengths == {0, 1, MinOutputLength - 1, MinOutputLength, MinOutputLength + 1}

OutputValues ==
  {Repeat("a", n) : n \in OutputLengths} \cup {Repeat("F", MinOutputLength)} \cup
  UNION {{[Repeat("F", n) EXCEPT ![at] = ch] : at \in {1, n}, ch \in {"g", " "}} :
           n \in OutputLengths \ {0}}

OutputFields == {JsonUndefined, JsonNumber} \cup {JsonString(str) : str \in OutputValues}

TimeStampFields ==
  {JsonUndefined, JsonNumber, JsonString(<<>>), JsonString(<<"2", "0", "2", "6">>),
   JsonString(<<"x">>)}

\* The values a body can parse to.
Bodies ==
  {JsonData("null", PulseOfKind("undefined")), JsonData("number", PulseOfKind("undefined"))} \cup
  {JsonData("object", PulseOfKind(kind)) : kind \in {"undefined", "null", "number"}} \cup
  {JsonData("object", PulseObject(o, t)) : o \in OutputFields, t \in TimeStampFields}

\* The SyntaxError of a body that is no JSON; an engine may quote the body in it.
ParseErrors ==
  {Thrown("SyntaxError", <<"Unexpected end of JSON input">>),
   Thrown("SyntaxError", <<"Unexpected token 'F', ", FailedToFetch, " is not valid JSON">>)}

\* What fetch resolves with: response.ok, response.status, response.statusText.
Responses ==
  {[ok |-> TRUE, status |-> "200", statusText |-> "OK"],
   [ok |-> FALSE, status |-> "404", statusText |-> "Not Found"],
   [ok |-> FALSE, status |-> "503", statusText |-> FailedToFetch]}

\* What fetch rejects with when the request fails.
FetchFailures ==
  {Thrown("TypeError", <<FailedToFetch>>), Thrown("TypeError", <<"Load failed">>), NonError}

NoData == JsonData("undefined", PulseOfKind("undefined"))

NetPending == [state |-> "pending", value |-> NoData, error |-> NoThrow]

NetFulfilled(data) == [state |-> "fulfilled", value |-> data, error |-> NoThrow]

NetRejected(error) == [state |-> "rejected", value |-> NoData, error |-> error]

\* No fetchLatestBeacon call made.  cause and body record what the platform
\* did to the call: why it failed, and what response.json() settled with.
IdleNet ==
  [pc |-> "idle", now |-> 0, called |-> 0, timer |-> "none", deadline |-> 0,
   cause |-> "none", body |-> "none", data |-> NoData, promise |-> NetPending]

\* fetchLatestBeacon up to `await fetch(...)`: the timer is set, the request sent.
FetchCalled(n) ==
  [n EXCEPT !.pc = "fetch", !.called = n.now, !.timer = "armed",
            !.deadline = n.now + TIMEOUT_MS, !.cause = "none", !.body = "none",
            !.data = NoData, !.promise = NetPending]

\* The call ends in its catch clause with this thrown value.
FetchThrows(n, cause, error) ==
  [n EXCEPT !.pc = "done", !.cause = cause, !.promise = NetRejected(CatchFetchError(error))]

\* setTimeout(() => controller.abort(), TIMEOUT_MS) runs: a fetch still pending
\* rejects with an AbortError.
TimerFired(n) ==
  IF n.pc = "fetch"
  THEN [FetchThrows(n, "abort", Thrown("AbortError", <<"The user aborted a request.">>))
          EXCEPT !.timer = "fired"]
  ELSE [n EXCEPT !.timer = "fired"]

\* fetch resolves with response: clearTimeout(timeoutId); if (!response.ok) throw
\* new Error(`HTTP ${response.status}: ${response.statusText}`); then await response.json().
HeadersArrived(n, response) ==
  IF ~response.ok
  THEN [FetchThrows(n, "httpStatus",
                    Thrown("Error", <<"HTTP ", response.status, ": ", response.statusText>>))
          EXCEPT !.timer = "cleared"]
  ELSE [n EXCEPT !.pc = "json", !.timer = "cleared"]

CauseOfFailure(error) ==
  IF ~error.isError THEN "nonError"
  ELSE IF error.message = <<FailedToFetch>> THEN "failedToFetch"
  ELSE "otherFetchError"

\* fetch rejects without an abort.
FetchRejected(n, error) == FetchThrows(n, CauseOfFailure(error), error)

\* response.json() rejects with a SyntaxError.
BodyUnparsable(n, error) == [FetchThrows(n, "parse", error) EXCEPT !.body = "unparsable"]

\* response.json() resolves: this.validateBeaconResponse(data); return data.
BodyParsed(n, data) ==
  IF validateBeaconResponse(data) # NoThrow
  THEN [FetchThrows(n, "validation", validateBeaconResponse(data))
          EXCEPT !.body = "parsed", !.data = data]
  ELSE [n EXCEPT !.pc = "done", !.body = "parsed", !.data = data,
                 !.promise = NetFulfilled(data)]

\* Time passes while the call is pending, but not beyond the moment a set timer
\* is due.
Ticked(n) ==
  [n EXCEPT !.now = IF n.timer = "armed" /\ n.now + TickMs > n.deadline
                    THEN n.deadline ELSE n.now + TickMs]

CanTick(n) ==
  /\ n.pc # "idle"
  /\ n.promise.state = "pending"
  /\ n.now < MaxNow
  /\ ~(n.timer = "armed" /\ n.now >= n.deadline)

fetchLatestBeacon ==
  /\ net.pc = "idle"
  /\ net' = FetchCalled(net)
  /\ UNCHANGED <<callVars, valIn, valOut, stream, shuf, ui>>

Tick ==
  /\ CanTick(net)
  /\ net' = Ticked(net)
  /\ UNCHANGED <<callVars, valIn, valOut, stream, shuf, ui>>

TimerFires ==
  /\ net.timer = "armed"
  /\ net.now >= net.deadline
  /\ net' = TimerFired(net)
  /\ UNCHANGED <<callVars, valIn, valOut, stream, shuf, ui>>

HeadersArrive ==
  /\ net.pc = "fetch"
  /\ \E response \in Responses : net' = HeadersArrived(net, response)
  /\ UNCHANGED <<callVars, valIn, valOut, stream, shuf, ui>>

FetchRejects ==
  /\ net.pc = "fetch"
  /\ \E error \in FetchFailures : net' = FetchRejected(net, error)
  /\ UNCHANGED <<callVars, valIn, valOut, stream, shuf, ui>>

BodyArrives ==
  /\ net.pc = "json"
  /\ \/ \E error \in ParseErrors : net' = BodyUnparsable(net, error)
     \/ \E data \in Bodies : net' = BodyParsed(net, data)
  /\ UNCHANGED <<callVars, valIn, valOut, stream, shuf, ui>>

(***************************************************************************)
(* A generator closure observed draw by draw.                              *)
(***************************************************************************)
\* Draws observed of one generator.
MaxDraws == 40

NoWord == <<0 - 1, 0 - 1>>

IdleStream ==
  [pc |-> "idle", seed |-> <<>>, base |-> Zero32, gen |-> NoGen, draws |-> 0,
   blocks |-> 0, refilled |-> FALSE, input |-> NoGen.state, value |-> NoWord]

\* The closure of createCSPRNG(seed) once it has generated 2^32 - 2 blocks and
\* handed out every word of them.
LongRunBlocks == W32(Half - 1, Half - 2)

LongRunGenerator(seed) ==
  [state       |-> [InitialState(seed) EXCEPT ![12] = LongRunBlocks],
   buffer      |-> Block([InitialState(seed) EXCEPT ![12] = W32(Half - 1, Half - 3)]),
   bufferIndex |-> 16]

\* const rng = this.createCSPRNG(seed), observed from its creation on.
CreateGenerator ==
  /\ stream.pc = "idle"
  /\ \E seed \in SampleSeeds :
       stream' = [IdleStream EXCEPT !.pc = "drawing", !.seed = seed,
                                    !.gen = createCSPRNG(seed)]
  /\ UNCHANGED <<callVars, valIn, valOut, net, shuf, ui>>

\* The same closure, observed from its 2^32 - 2 nd block on.
ObserveLongRun ==
  /\ stream.pc = "idle"
  /\ \E seed \in SampleSeeds :
       stream' = [IdleStream EXCEPT !.pc = "drawing", !.seed = seed,
                                    !.base = LongRunBlocks,
                                    !.gen = LongRunGenerator(seed)]
  /\ UNCHANGED <<callVars, valIn, valOut, net, shuf, ui>>

\* rng(): one call of the closure.  refilled and input record whether the call
\* generated a block and from which state array.
DrawValue ==
  /\ stream.pc = "drawing"
  /\ stream.draws < MaxDraws
  /\ \E d \in {Draw(stream.gen)} :
       stream' = [stream EXCEPT
                    !.gen = d.gen,
                    !.value = d.value,
                    !.draws = stream.draws + 1,
                    !.refilled = stream.gen.bufferIndex >= 16,
                    !.blocks = IF stream.gen.bufferIndex >= 16
                               THEN stream.blocks + 1 ELSE stream.blocks,
                    !.input = IF stream.gen.bufferIndex >= 16
                              THEN stream.gen.state ELSE stream.input]
  /\ UNCHANGED <<callVars, valIn, valOut, net, shuf, ui>>

(***************************************************************************)
(* The body of generateUniqueNumbers observed iteration by iteration.      *)
(* draws counts the calls of rng; at, j and value are the index i, the     *)
(* index j and the word behind rng() of the last iteration.                *)
(***************************************************************************)
IdleShuffle ==
  [pc |-> "idle", seed |-> <<>>, count |-> 0, min |-> 0, max |-> 0, pool |-> <<>>,
   rng |-> NoGen, i |-> 0, at |-> 0, j |-> 0, value |-> NoWord, draws |-> 0,
   result |-> <<>>]

\* Math.floor(rng() * (i + 1)) of the iteration about to run.
ShuffleIndex(st) == FloorScaled(Draw(st.rng).value, st.i + 1)

\* The loop condition with its bound one off.
MutantLoopToZero(i) == i >= 0

\* i > 0
LoopContinues(i) == i > 0

\* generateUniqueNumbers(seedPromise, count, min, max) with seedPromise fulfilled,
\* up to the first test of the loop condition.
SampleStart ==
  /\ shuf.pc = "idle"
  /\ \E seed \in SampleSeeds, a \in SampleArgs :
       shuf' = IF RangeTooSmall(a.count, a.min, a.max)
               THEN [IdleShuffle EXCEPT !.pc = "failed", !.seed = seed, !.count = a.count,
                                        !.min = a.min, !.max = a.max]
               ELSE [IdleShuffle EXCEPT !.pc = "loop", !.seed = seed, !.count = a.count,
                                        !.min = a.min, !.max = a.max,
                                        !.pool = MakePool(a.min, a.max),
                                        !.rng = createCSPRNG(seed),
                                        !.i = Len(MakePool(a.min, a.max)) - 1]
  /\ UNCHANGED <<callVars, valIn, valOut, net, stream, ui>>

\* One iteration of the shuffle loop.
ShuffleIterate ==
  /\ shuf.pc = "loop"
  /\ LoopContinues(shuf.i)
  /\ \E st \in {ShuffleStep([pool |-> shuf.pool, rng |-> shuf.rng, i |-> shuf.i])} :
       shuf' = [shuf EXCEPT !.pool = st.pool, !.rng = st.rng, !.i = st.i,
                            !.at = shuf.i,
                            !.j = ShuffleIndex(shuf),
                            !.value = Draw(shuf.rng).value,
                            !.draws = shuf.draws + 1]
  /\ UNCHANGED <<callVars, valIn, valOut, net, stream, ui>>

\* return pool.slice(0, count).sort((a, b) => a - b)
SampleReturn ==
  /\ shuf.pc = "loop"
  /\ ~LoopContinues(shuf.i)
  /\ shuf' = [shuf EXCEPT !.pc = "returned",
                          !.result = SortNumeric(Slice0(shuf.pool, shuf.count))]
  /\ UNCHANGED <<callVars, valIn, valOut, net, stream, ui>>

(***************************************************************************)
(* LotteryApp.  The page is what the methods below set: whether the        *)
(* loading indicator and the error message are visible, whether the        *)
(* generate button is disabled, the error text, and the run whose results  *)
(* displayResults was last called with.                                    *)
(***************************************************************************)
\* generateNumbers runs on one page.
MaxRuns == 2

\* The .number-ball elements of each of the two containers of the page.
BallsPerSet == 2

\* The delay between the timers of neighbouring balls, in milliseconds.
StaggerMs == 100

ContainerIds == {"numbers649", "numbersMax"}

\* The text of an element the application has not written to.
NoText == <<>>

\* The lotteryNumbers of a run that has displayed none.
NoNumbers ==
  [numbers649 |-> <<>>, numbersMax |-> <<>>, timestamp |-> <<>>, outputValue |-> <<>>]

IdleUi ==
  [pc |-> "unloaded", loading |-> FALSE, disabled |-> FALSE, errorShown |-> FALSE,
   errorText |-> <<>>, run |-> 0, failed |-> FALSE, displayed |-> 0, active |-> 0,
   last |-> NoNumbers,
   balls |-> [id \in ContainerIds |-> [k \in 1..BallsPerSet |-> NoText]],
   timers |-> <<>>, pendingAtDisplay |-> 0,
   beaconTimestamp |-> NoText, beaconOutput |-> NoText, beaconTitle |-> NoText]

\* showLoading without `this.generateBtn.disabled = ...`.
MutantButtonLeftEnabled(u, show) == [u EXCEPT !.loading = show]

\* showLoading(show)
showLoading(u, show) == [u EXCEPT !.loading = show, !.disabled = show]

\* hideError()
hideError(u) == [u EXCEPT !.errorShown = FALSE]

\* showError(message)
showError(u, message) == [u EXCEPT !.errorText = message, !.errorShown = TRUE]

\* handleError(error)
handleError(u, error) ==
  showError(u,
    IF error.isError
    THEN CASE error.errorType = "network" -> <<"Network Error: ">> \o error.message
           [] error.errorType = "api" -> <<"API Error: ">> \o error.message
           [] error.errorType = "generation" -> <<"Generation Error: ">> \o error.message
           [] OTHER -> error.message
    ELSE <<"An unexpected error occurred">>)

\* The timestamps of the samples that new Date(timestamp) parses.
ParsableTimestamps == {<<"2", "0", "2", "6">>}

\* new Date(timestamp).toLocaleString()
LocaleString(timestamp) ==
  IF timestamp \in ParsableTimestamps
  THEN <<"toLocaleString of ">> \o timestamp
  ELSE <<"Invalid Date">>

\* outputValue.length > 32 ? `${outputValue.substring(0, 32)}...` : outputValue
TruncatedOutput(outputValue) ==
  IF Len(outputValue) > 32
  THEN SubSeq(outputValue, 1, 32) \o <<".", ".", ".">>
  ELSE outputValue

\* displayBeaconInfo(timestamp, outputValue)
displayBeaconInfo(u, timestamp, outputValue) ==
  [u EXCEPT !.beaconTimestamp = LocaleString(timestamp),
            !.beaconOutput = TruncatedOutput(outputValue),
            !.beaconTitle = outputValue]

\* The timers numbers.forEach registers: one for each index that has a ball, to
\* write number.toString() into it after index * 100 ms.
TimersOf(containerId, numbers) ==
  [k \in 1..(IF Len(numbers) < BallsPerSet THEN Len(numbers) ELSE BallsPerSet) |->
     [containerId |-> containerId, index |-> k - 1, text |-> ToString(numbers[k]),
      left |-> (k - 1) * StaggerMs]]

\* displayNumberSet(containerId, numbers); timers is kept in the order of the
\* calls of setTimeout.
displayNumberSet(u, containerId, numbers) ==
  [u EXCEPT !.timers = u.timers \o TimersOf(containerId, numbers)]

\* displayResults(lotteryNumbers); pendingAtDisplay records how many timers of
\* earlier calls were waiting when it was called.
displayResults(u, lotteryNumbers) ==
  displayBeaconInfo(
    displayNumberSet(
      displayNumberSet([u EXCEPT !.displayed = u.run, !.last = lotteryNumbers,
                                 !.pendingAtDisplay = Len(u.timers)],
                       "numbers649", lotteryNumbers.numbers649),
      "numbersMax", lotteryNumbers.numbersMax),
    lotteryNumbers.timestamp, lotteryNumbers.outputValue)

\* The timers whose time has come.
DueTimers(timers) == {t \in 1..Len(timers) : timers[t].left = 0}

\* Of the timers that are due, the one registered last.
MutantLastDue(timers) == CHOOSE t \in DueTimers(timers) : \A o \in DueTimers(timers) : o <= t

\* The timer whose callback runs next: timers run in the order of their expiry,
\* and timers that expire together in the order of their registration.
NextDue(timers) == CHOOSE t \in DueTimers(timers) : \A o \in DueTimers(timers) : t <= o

\* The callback of a timer of displayNumberSet: ball.textContent = number.toString()
TimerCallback(u, t) ==
  [u EXCEPT !.balls[u.timers[t].containerId][u.timers[t].index + 1] = u.timers[t].text,
            !.timers = SubSeq(u.timers, 1, t - 1) \o SubSeq(u.timers, t + 1, Len(u.timers))]

\* StaggerMs pass on the page.
TimersAged(u) ==
  [u EXCEPT !.timers = [t \in 1..Len(u.timers) |->
                          [u.timers[t] EXCEPT !.left = u.timers[t].left - StaggerMs]]]

\* generateNumbers up to `await this.beaconService.fetchLatestBeacon()`.  active
\* counts the calls of generateNumbers that have not returned; pc follows the call
\* made last.
RunStarted(u) ==
  hideError(showLoading([u EXCEPT !.pc = "fetch", !.run = u.run + 1, !.failed = FALSE,
                                  !.active = u.active + 1],
                        TRUE))

\* The catch clause without the finally clause after it.
MutantNoFinally(u, error) ==
  [handleError(u, error) EXCEPT !.pc = "ended", !.failed = TRUE, !.active = u.active - 1]

\* catch (error) { this.handleError(error) } finally { this.showLoading(false) }
RunFailed(u, error) ==
  showLoading([handleError(u, error) EXCEPT !.pc = "ended", !.failed = TRUE,
                                            !.active = u.active - 1],
              FALSE)

\* this.displayResults(lotteryNumbers), then finally { this.showLoading(false) }
RunSucceeded(u, lotteryNumbers) ==
  showLoading([displayResults(u, lotteryNumbers) EXCEPT !.pc = "ended",
                                                        !.active = u.active - 1],
              FALSE)

\* Pairs of arrays generate649Numbers and generateLottoMaxNumbers resolve with
\* for one beacon value.
GeneratedNumbers ==
  {[numbers649 |-> <<1, 2, 3, 4, 5, 6>>, numbersMax |-> <<1, 2, 3, 4, 5, 6, 7>>],
   [numbers649 |-> <<5, 12, 23, 31, 44, 49>>, numbersMax |-> <<2, 9, 17, 28, 36, 41, 50>>]}

\* { numbers649, numbersMax, timestamp: beaconData.pulse.timeStamp,
\*   outputValue: beaconData.pulse.outputValue }
LotteryNumbersOf(numbers649, numbersMax, beaconData) ==
  [numbers649 |-> numbers649, numbersMax |-> numbersMax,
   timestamp |-> beaconData.pulse.timeStamp.str,
   outputValue |-> beaconData.pulse.outputValue.str]

\* What a generate649Numbers / generateLottoMaxNumbers call is rejected with when
\* the platform fails it: crypto.subtle is undefined outside a secure context.
GenerationFailures ==
  {Thrown("TypeError", <<"Cannot read properties of undefined (reading 'importKey')">>)}

\* The rejection of generate649Numbers(outputValue) / generateLottoMaxNumbers(outputValue)
\* that the beacon value decides: deriveSeed calls hexToBytes first, and the entry
\* point returns the rejected promise as it is.  NoThrow when hexToBytes returns.
DecodeFailureOf(outputValue) ==
  Bind(DeriveSeedStart(outputValue), LAMBDA d :
       IF d.promise.state = "rejected"
       THEN Thrown("Error", <<d.promise.error.message>>)
       ELSE NoThrow)

\* DecodeFailureOf on the sampled beacon values, tabulated once.
DecodeFailureTable == [outputValue \in OutputValues |-> DecodeFailureOf(outputValue)]

DecodeFailure(beaconData) ==
  IF beaconData.pulse.outputValue.str \in OutputValues
  THEN DecodeFailureTable[beaconData.pulse.outputValue.str]
  ELSE DecodeFailureOf(beaconData.pulse.outputValue.str)

\* new LotteryApp(): the constructor ends with this.generateNumbers().
PageLoad ==
  /\ ui.pc = "unloaded"
  /\ ui' = RunStarted(ui)
  /\ net' = FetchCalled(IdleNet)
  /\ UNCHANGED <<callVars, valIn, valOut, stream, shuf>>

\* A click on the generate button, once the constructor has added the listener;
\* a disabled button dispatches none.
Click ==
  /\ ui.pc # "unloaded"
  /\ ~ui.disabled
  /\ ui.run < MaxRuns
  /\ ui' = RunStarted(ui)
  /\ net' = FetchCalled(IdleNet)
  /\ UNCHANGED <<callVars, valIn, valOut, stream, shuf>>

\* The record of the fetchLatestBeacon call of a run: nothing reads it once the
\* run has returned, and it is dropped then.
CallKept(u, n) == IF u.pc = "ended" THEN IdleNet ELSE n

\* const beaconData = await this.beaconService.fetchLatestBeacon()
FetchSettles ==
  /\ ui.pc = "fetch"
  /\ net.promise.state # "pending"
  /\ ui' = IF net.promise.state = "rejected"
           THEN RunFailed(ui, net.promise.error)
           ELSE [ui EXCEPT !.pc = "generate649"]
  /\ net' = CallKept(ui', net)
  /\ UNCHANGED <<callVars, valIn, valOut, stream, shuf>>

\* const numbers649 = await this.lotteryGenerator.generate649Numbers(...)
Generate649Settles ==
  /\ ui.pc = "generate649"
  /\ \E thrown \in {DecodeFailure(net.promise.value)} :
       IF thrown.isError
       THEN ui' = RunFailed(ui, thrown)
       ELSE \/ \E error \in GenerationFailures : ui' = RunFailed(ui, error)
            \/ ui' = [ui EXCEPT !.pc = "generateMax"]
  /\ net' = CallKept(ui', net)
  /\ UNCHANGED <<callVars, valIn, valOut, stream, shuf>>

\* const numbersMax = await this.lotteryGenerator.generateLottoMaxNumbers(...), the
\* two validateNumbers tests and displayResults.
GenerateMaxSettles ==
  /\ ui.pc = "generateMax"
  /\ \/ \E error \in GenerationFailures \cup ({DecodeFailure(net.promise.value)} \ {NoThrow}) :
          ui' = RunFailed(ui, error)
     \/ \E valid649, validMax \in BOOLEAN, numbers \in GeneratedNumbers :
          ui' = IF ~valid649
                THEN RunFailed(ui, Thrown("Error",
                                          <<"Generated 6/49 numbers failed validation">>))
                ELSE IF ~validMax
                THEN RunFailed(ui, Thrown("Error",
                                          <<"Generated Lotto Max numbers failed validation">>))
                ELSE RunSucceeded(ui, LotteryNumbersOf(numbers.numbers649, numbers.numbersMax,
                                                       net.promise.value))
  /\ net' = CallKept(ui', net)
  /\ UNCHANGED <<callVars, valIn, valOut, stream, shuf>>

\* The callback of the display timer that is next to run.
DisplayTimerFires ==
  /\ DueTimers(ui.timers) # {}
  /\ ui' = TimerCallback(ui, NextDue(ui.timers))
  /\ UNCHANGED <<callVars, valIn, valOut, net, stream, shuf>>

\* Time passes on the page while display timers wait and none of them is due.
DisplayTick ==
  /\ ui.timers # <<>>
  /\ DueTimers(ui.timers) = {}
  /\ ui' = TimersAged(ui)
  /\ UNCHANGED <<callVars, valIn, valOut, net, stream, shuf>>

\* Nothing but the calls on a LotteryGenerator has started.
IdleRest == net = IdleNet /\ stream = IdleStream /\ shuf = IdleShuffle /\ ui = IdleUi

(***************************************************************************)
(* Specifications.                                                         *)
(***************************************************************************)
\* Calls of the two entry points on one instance, interleaved at their awaits.
Init ==
  /\ hmac \in HmacSamples
  /\ IdleCalls
  /\ valIn = NoValIn /\ valOut = NoValOut
  /\ IdleRest

Next ==
  \E c \in Calls :
    \/ generate649Numbers(c)
    \/ generateLottoMaxNumbers(c)
    \/ ImportKeySettles(c)
    \/ SignSettles(c)
    \/ ResumeGenerate(c)
    \/ Adopt(c)

Spec == Init /\ [][Next]_vars

\* One call alone: of generateUniqueNumbers directly, or of an entry point.
InitSample ==
  /\ hmac \in HmacSamples
  /\ IdleCalls
  /\ valIn = NoValIn /\ valOut = NoValOut
  /\ IdleRest

NextSample ==
  \/ CallGenerateUnique(1)
  \/ generate649Numbers(1)
  \/ generateLottoMaxNumbers(1)
  \/ ImportKeySettles(1)
  \/ SignSettles(1)
  \/ ResumeGenerate(1)
  \/ Adopt(1)

SpecSample == InitSample /\ [][NextSample]_vars

\* validateNumbers applied to every array of ValArrays and all bounds.
InitValidate ==
  /\ hmac = [x \in HmacInputs |-> DigestA]
  /\ IdleCalls
  /\ IdleRest
  /\ valIn \in [numbers : ValArrays, expectedCount : 0..(MaxValLen + 1),
                min : ValBounds, max : ValBounds]
  /\ valOut = NoValOut

NextValidate == Validate

SpecValidate == InitValidate /\ [][NextValidate]_vars

\* One fetchLatestBeacon call, the clock and the beacon service.
InitFetch ==
  /\ hmac = [x \in HmacInputs |-> DigestA]
  /\ IdleCalls
  /\ valIn = NoValIn /\ valOut = NoValOut
  /\ IdleRest

NextFetch ==
  \/ fetchLatestBeacon
  \/ Tick
  \/ TimerFires
  \/ HeadersArrive
  \/ FetchRejects
  \/ BodyArrives

SpecFetch == InitFetch /\ [][NextFetch]_vars

\* One generator closure, drawn from MaxDraws times.
NextStream == CreateGenerator \/ ObserveLongRun \/ DrawValue

SpecStream == InitFetch /\ [][NextStream]_vars

\* One generateUniqueNumbers body, step by step.
NextShuffle == SampleStart \/ ShuffleIterate \/ SampleReturn

SpecShuffle == InitFetch /\ [][NextShuffle]_vars

\* The page: its runs of generateNumbers, the fetch of each and the clock.  A
\* continuation whose promise has settled runs, and a timer that is due fires.
NextApp ==
  \/ PageLoad
  \/ Click
  \/ FetchSettles
  \/ Generate649Settles
  \/ GenerateMaxSettles
  \/ DisplayTimerFires
  \/ DisplayTick
  \/ Tick
  \/ TimerFires
  \/ HeadersArrive
  \/ FetchRejects
  \/ BodyArrives

SpecApp ==
  /\ InitFetch
  /\ [][NextApp]_vars
  /\ WF_vars(PageLoad)
  /\ WF_vars(FetchSettles)
  /\ WF_vars(Generate649Settles)
  /\ WF_vars(GenerateMaxSettles)
  /\ WF_vars(TimerFires)

(***************************************************************************)
(* Properties.                                                             *)
(***************************************************************************)
EntryPoints == {"649", "max"}

NoDuplicates(s) == \A i, j \in 1..Len(s) : i # j => s[i] # s[j]

StrictlyAscending(s) == \A k \in 1..(Len(s) - 1) : s[k] < s[k + 1]

\* C1: whenever generateUniqueNumbers returns a result, the result has no
\* duplicates, every element lies in [min, max] and its length is count.
\* It does not hold: a negative count passes the range check and slice(0, count)
\* then drops -count elements from the end of the pool.
C1ResultMeetsContract ==
  \A c \in Calls :
    (args[c].entry = "unique" /\ inner[c].state = "fulfilled") =>
      /\ NoDuplicates(inner[c].value)
      /\ \A k \in 1..Len(inner[c].value) :
           args[c].min <= inner[c].value[k] /\ inner[c].value[k] <= args[c].max
      /\ Len(inner[c].value) = args[c].count

\* C2: two calls with the same entropy hex and the same purpose derive the same
\* seed, leave the same generator state (state words, buffer, cursor) and the
\* same pool and settle with the same result, whatever ran before or between.
C2SameInputsSameRun ==
  \A c, d \in Calls :
    (/\ args[c].entry \in EntryPoints
     /\ args[d].entry = args[c].entry
     /\ args[d].entropy = args[c].entropy
     /\ gpc[c] = "done" /\ gpc[d] = "done") =>
      /\ seedP[c] = seedP[d]
      /\ gen[c] = gen[d]
      /\ pool[c] = pool[d]
      /\ inner[c] = inner[d]
      /\ (outer[c].state # "pending" /\ outer[d].state # "pending" => outer[c] = outer[d])

\* Two calls with the same inputs, the second made after the first, both resolved.
C2Witness ==
  \E c, d \in Calls :
    /\ c < d
    /\ args[c].entry \in EntryPoints
    /\ args[d].entry = args[c].entry
    /\ args[d].entropy = args[c].entropy
    /\ outer[c].state = "fulfilled" /\ outer[d].state = "fulfilled"

\* The strings C3 calls well formed: even length, hex digits only.
ClaimHexDigits ==
  {"0", "1", "2", "3", "4", "5", "6", "7", "8", "9",
   "a", "b", "c", "d", "e", "f", "A", "B", "C", "D", "E", "F"}

WellFormedHex(str) ==
  /\ Len(str) % 2 = 0
  /\ \A k \in 1..Len(str) : str[k] \in ClaimHexDigits

InvalidEncodingMessages ==
  {"Invalid hex string: odd length", "Invalid hex character in beacon value"}

\* C3: deriveSeed of an entropy string that is not an even-length string of hex
\* digits ends rejected with an invalid-encoding error and produces no seed.
\* It does not hold: parseInt reads the leading hex digit of a pair such as "1g"
\* and the pair decodes to a byte.
C3MalformedEntropyRejected ==
  \A c \in Calls :
    (/\ args[c].entry \in EntryPoints
     /\ ~WellFormedHex(args[c].entropy)
     /\ dpc[c] = "done") =>
      /\ seedP[c].state = "rejected"
      /\ seedP[c].error.message \in InvalidEncodingMessages

\* C4: when count > max - min + 1, generateUniqueNumbers is rejected with the
\* range error and has built no pool and created no generator.
C4RangeTooSmallFails ==
  \A c \in Calls :
    (args[c].entry # "none" /\ args[c].count > args[c].max - args[c].min + 1) =>
      /\ inner[c] = Rejected(NewError(RangeMessage(args[c].count, args[c].min, args[c].max)))
      /\ gen[c] = NoGen
      /\ pool[c] = NoPool

\* A direct call whose count exceeds the size of the range by one has failed.
C4Witness ==
  \E c \in Calls :
    /\ args[c].entry = "unique"
    /\ args[c].count = args[c].max - args[c].min + 2
    /\ inner[c].state = "rejected"

EntryMessage(entry) ==
  IF entry = "649" THEN "Failed to generate 6/49 numbers"
  ELSE "Failed to generate Lotto Max numbers"

\* C5: a failed generate649Numbers / generateLottoMaxNumbers call is rejected
\* with the error createError builds: errorType 'generation' and the entry
\* point's message followed by the original error's message.
\* It does not hold: the entry points return the inner promise without awaiting
\* it, so its rejection passes their catch clause by.
C5FailuresAreTagged ==
  \A c \in Calls :
    (args[c].entry \in EntryPoints /\ outer[c].state = "rejected") =>
      /\ outer[c].error.errorType = "generation"
      /\ outer[c].error.message =
           EntryMessage(args[c].entry) \o ": " \o inner[c].error.message

\* C6: every array a generateUniqueNumbers, generate649Numbers or
\* generateLottoMaxNumbers call resolves with is strictly ascending.
C6ResultsAscending ==
  \A c \in Calls :
    /\ inner[c].state = "fulfilled" => StrictlyAscending(inner[c].value)
    /\ outer[c].state = "fulfilled" => StrictlyAscending(outer[c].value)

\* A call resolved with two or more numbers that the shuffle had left in
\* another order at the front of the pool.
C6Witness ==
  \E c \in Calls :
    /\ inner[c].state = "fulfilled"
    /\ Len(inner[c].value) >= 2
    /\ Slice0(pool[c].items, args[c].count) # inner[c].value

IsIntegerBetween(x, lo, hi) ==
  ~x.nan /\ x.twice % 2 = 0 /\ lo.twice <= x.twice /\ x.twice <= hi.twice

AsJsNumbers(arr) == [k \in 1..Len(arr) |-> JsInt(arr[k])]

\* C8: the result of a resolved generate649Numbers call passes
\* validateNumbers(result, 6, 1, 49) and that of a resolved
\* generateLottoMaxNumbers call passes validateNumbers(result, 7, 1, 50).
C8ResultsValidate ==
  \A c \in Calls :
    outer[c].state = "fulfilled" =>
      /\ args[c].entry = "649" =>
           validateNumbers(AsJsNumbers(outer[c].value), 6, JsInt(1), JsInt(49))
      /\ args[c].entry = "max" =>
           validateNumbers(AsJsNumbers(outer[c].value), 7, JsInt(1), JsInt(50))

\* A resolved call of each entry point.
C8Witness ==
  \E c, d \in Calls :
    /\ args[c].entry = "649" /\ outer[c].state = "fulfilled"
    /\ args[d].entry = "max" /\ outer[d].state = "fulfilled"

\* What the sampler returns for each sample digest and entry point, run alone.
AloneResults ==
  [x \in Digests \X EntryPoints |->
     IF x[2] = "649" THEN SampleRun(x[1], 6, 1, 49).value
     ELSE SampleRun(x[1], 7, 1, 50).value]

\* The outcome of an entry point called alone with this entropy.
AloneOutcome(entry, entropy) ==
  IF ~hexToBytes(entropy).ok THEN Rejected(hexToBytes(entropy).error)
  ELSE IF hexToBytes(entropy).bytes = <<>> THEN Rejected(NewError("DataError"))
  ELSE Fulfilled(AloneResults[<<hmac[<<hexToBytes(entropy).bytes, entry>>], entry>>])

\* C9: however the calls in flight interleave at their awaits, each call
\* settles as the same call settles when run alone.
C9CallsIsolated ==
  \A c \in Calls :
    (args[c].entry \in EntryPoints /\ outer[c].state # "pending") =>
      outer[c] = AloneOutcome(args[c].entry, args[c].entropy)

\* A later call with another key has resolved while an earlier call is still
\* waiting for its signature.
C9Witness ==
  \E c, d \in Calls :
    /\ c < d
    /\ dpc[c] = "sign"
    /\ key[d] # <<>> /\ key[d] # key[c]
    /\ outer[d].state = "fulfilled"


(***************************************************************************)
(* Properties of BeaconService.fetchLatestBeacon.                          *)
(***************************************************************************)
\* C11: a call that has not received a complete response (headers and parsed
\* body) once TIMEOUT_MS have passed since it was made is rejected, it is not
\* left pending.
C11IncompleteByDeadlineRejected ==
  (net.pc # "idle" /\ net.now > net.called + TIMEOUT_MS /\ net.body = "none")
    => net.promise.state = "rejected"

\* A parsed body of the shape the beacon documents: an object whose pulse is an
\* object with a hex-only outputValue of at least 64 characters and a non-empty
\* timeStamp string.
GoodPulse(data) ==
  /\ data.kind = "object"
  /\ data.pulse.kind = "object"
  /\ data.pulse.outputValue.kind = "string"
  /\ Len(data.pulse.outputValue.str) >= 64
  /\ \A k \in 1..Len(data.pulse.outputValue.str) :
       data.pulse.outputValue.str[k] \in ClaimHexDigits
  /\ data.pulse.timeStamp.kind = "string"
  /\ Len(data.pulse.timeStamp.str) > 0

\* C12: fetchLatestBeacon resolves only with a body of the good shape, and a
\* parsed body of any other shape rejects the call with errorType 'api'.
C12ResolvesOnlyValidPulse ==
  /\ net.promise.state = "fulfilled" => GoodPulse(net.promise.value)
  /\ (net.body = "parsed" /\ ~GoodPulse(net.data))
       => /\ net.promise.state = "rejected"
          /\ net.promise.error.errorType = "api"
  /\ (net.body = "parsed" /\ GoodPulse(net.data))
       => net.promise = NetFulfilled(net.data)

\* A call resolved with an outputValue of exactly 64 hex characters.
C12Witness ==
  /\ net.promise.state = "fulfilled"
  /\ Len(net.promise.value.pulse.outputValue.str) = 64

\* C19: every rejection carries errorType 'network' or 'api'; an abort and a
\* failed fetch give 'network'; a non-OK status, an unparsable body, a failed
\* validation and a thrown non-Error give 'api'.
C19RejectionsClassified ==
  net.promise.state = "rejected"
    => /\ net.promise.error.errorType \in {"network", "api"}
       /\ net.cause \in {"abort", "failedToFetch"}
            => net.promise.error.errorType = "network"
       /\ net.cause \in {"httpStatus", "parse", "validation", "nonError"}
            => net.promise.error.errorType = "api"

(***************************************************************************)
(* Properties of the generator closure.                                    *)
(***************************************************************************)
\* base + n as the pair of counter words: lo is word 12, hi is word 13.
CounterAfter(base, n) ==
  [lo |-> W32((base[1] + ((base[2] + n) \div Half)) % Half, (base[2] + n) % Half),
   hi |-> W32(0, (base[1] + ((base[2] + n) \div Half)) \div Half)]

\* The state array the block numbered n (from 0) after base is computed from.
InputOfBlock(seed, base, n) ==
  [InitialState(seed) EXCEPT ![12] = CounterAfter(base, n).lo,
                             ![13] = CounterAfter(base, n).hi]

\* C13: a block is generated on draws 1, 17, 33, ... and on no other; draw k
\* returns word (k - 1) mod 16 of block ceil(k / 16); the cursor is 16 before
\* the first draw and between 1 and 16 after every draw.
C13RefillsEverySixteen ==
  /\ (stream.pc = "drawing" /\ stream.draws = 0) => stream.gen.bufferIndex = 16
  /\ stream.draws >= 1
       => /\ stream.refilled <=> (stream.draws % 16 = 1)
          /\ stream.blocks = (stream.draws + 15) \div 16
          /\ stream.value =
               Block(InputOfBlock(stream.seed, stream.base, stream.blocks - 1))
                 [(stream.draws - 1) % 16]
          /\ stream.gen.bufferIndex = ((stream.draws - 1) % 16) + 1

\* The seventeenth draw, the first of the second block.
C13Witness == stream.draws = 17 /\ stream.refilled /\ stream.blocks = 2

\* C14: the block numbered n is computed with word13 * 2^32 + word12 = n, the
\* counter is one more after it, and word 13 moves exactly when word 12 wraps.
C14CounterCarries ==
  /\ stream.pc = "drawing"
       => /\ stream.gen.state[12] = CounterAfter(stream.base, stream.blocks).lo
          /\ stream.gen.state[13] = CounterAfter(stream.base, stream.blocks).hi
  /\ stream.blocks >= 1
       => /\ stream.input[12] = CounterAfter(stream.base, stream.blocks - 1).lo
          /\ stream.input[13] = CounterAfter(stream.base, stream.blocks - 1).hi

\* The block computed at counter 2^32 - 1 has wrapped word 12 and carried into
\* word 13.
C14Witness ==
  /\ stream.blocks = 2
  /\ stream.input[12] = W32(Half - 1, Half - 1)
  /\ stream.gen.state[12] = Zero32
  /\ stream.gen.state[13] = One32

\* "expand 32-byte k" as the four words the claim names, high half first.
ClaimConstants ==
  <<W32(24944, 30821), W32(13088, 25710), W32(31074, 11570), W32(27424, 25972)>>

\* C15: the closure built from a 32-byte seed has word i (i < 8) equal to the
\* little-endian reading of seed[4i..4i+3], words 8..11 equal to 0x61707865,
\* 0x3320646e, 0x79622d32, 0x6b206574, words 12..15 zero and the cursor at 16.
C15InitialState ==
  (stream.pc = "drawing" /\ stream.draws = 0 /\ stream.base = Zero32
     /\ Len(stream.seed) = 32)
    => /\ \A i \in 0..7 :
            stream.gen.state[i] =
              W32(stream.seed[4 * i + 3] + 256 * stream.seed[4 * i + 4],
                  stream.seed[4 * i + 1] + 256 * stream.seed[4 * i + 2])
       /\ \A i \in 8..11 : stream.gen.state[i] = ClaimConstants[i - 7]
       /\ \A i \in 12..15 : stream.gen.state[i] = Zero32
       /\ stream.gen.bufferIndex = 16

\* A closure just built from the digest 00 01 02 ... 1f.
C15Witness ==
  stream.pc = "drawing" /\ stream.draws = 0 /\ stream.base = Zero32
    /\ stream.seed = DigestA

\* The quarter round of the reference block function on four words.
RefQuarter(a, b, c, d) ==
  Bind(Add32(a, b), LAMBDA a1 :
  Bind(Rotl32(Xor32(d, a1), 16), LAMBDA d1 :
  Bind(Add32(c, d1), LAMBDA c1 :
  Bind(Rotl32(Xor32(b, c1), 12), LAMBDA b1 :
  Bind(Add32(a1, b1), LAMBDA a2 :
  Bind(Rotl32(Xor32(d1, a2), 8), LAMBDA d2 :
  Bind(Add32(c1, d2), LAMBDA c2 :
       <<a2, Rotl32(Xor32(b1, c2), 7), c2, d2>>)))))))

\* The quarter round applied to the words of s at the four indices of q.
RefApply(s, q) ==
  Bind(RefQuarter(s[q[1]], s[q[2]], s[q[3]], s[q[4]]), LAMBDA r :
       [k \in 0..15 |-> IF k = q[1] THEN r[1]
                        ELSE IF k = q[2] THEN r[2]
                        ELSE IF k = q[3] THEN r[3]
                        ELSE IF k = q[4] THEN r[4]
                        ELSE s[k]])

\* The columns, then the diagonals, of one double round.
RefRoundOrder ==
  << <<0, 4, 8, 12>>, <<1, 5, 9, 13>>, <<2, 6, 10, 14>>, <<3, 7, 11, 15>>,
     <<0, 5, 10, 15>>, <<1, 6, 11, 12>>, <<2, 7, 8, 13>>, <<3, 4, 9, 14>> >>

RECURSIVE RefDouble(_, _)
RefDouble(s, n) ==
  IF n > Len(RefRoundOrder) THEN s
  ELSE Bind(RefApply(s, RefRoundOrder[n]), LAMBDA t : RefDouble(t, n + 1))

RECURSIVE RefRounds(_, _)
RefRounds(s, n) ==
  IF n = 0 THEN s ELSE Bind(RefDouble(s, 1), LAMBDA t : RefRounds(t, n - 1))

\* Ten double rounds, then the word-wise addition of the input.
RefBlock(input) ==
  Bind(RefRounds(input, 10), LAMBDA w : [k \in 0..15 |-> Add32(w[k], input[k])])

RefTable == [input \in BlockInputs |-> RefBlock(input)]

\* C16: every block the closure generates is the reference block function of
\* the state array it was computed from, and each of its words is in [0, 2^32).
C16BlockIsReference ==
  stream.blocks >= 1
    => /\ stream.input \in BlockInputs
       /\ stream.gen.buffer = RefTable[stream.input]
       /\ \A k \in 0..15 : /\ stream.gen.buffer[k][1] \in 0..(Half - 1)
                           /\ stream.gen.buffer[k][2] \in 0..(Half - 1)

\* A third block, computed with the counter at two.
C16Witness ==
  /\ stream.blocks = 3
  /\ stream.base = Zero32
  /\ stream.input[12] = W32(0, 2)

(***************************************************************************)
(* Properties of the shuffle of generateUniqueNumbers.                     *)
(***************************************************************************)
\* C17: the word behind every rng() is in [0, 2^32), so the value is in [0, 1)
\* and the index j drawn for position i satisfies 0 <= j <= i; after every
\* swap the pool is a permutation of min..max.
C17ShuffleKeepsPermutation ==
  /\ shuf.draws >= 1
       => /\ shuf.value[1] \in 0..(Half - 1)
          /\ shuf.value[2] \in 0..(Half - 1)
          /\ 0 <= shuf.j
          /\ shuf.j <= shuf.at
  /\ shuf.pc \in {"loop", "returned"}
       => /\ Len(shuf.pool) = Cardinality(shuf.min..shuf.max)
          /\ \A v \in shuf.min..shuf.max :
               Cardinality({k \in 1..Len(shuf.pool) : shuf.pool[k] = v}) = 1

\* An iteration that exchanged two different positions.
C17Witness == shuf.draws >= 1 /\ shuf.j < shuf.at

\* C18, as the specification states it: a call that passes the range check
\* returns after exactly max - min draws.
C18DrawsMaxMinusMin ==
  shuf.pc = "returned" => shuf.draws = shuf.max - shuf.min

\* C18, amended: a call that passes the range check returns after exactly
\* max - min draws when max >= min and after none when the range is empty,
\* whatever count is; while the loop runs, the draws made and the iterations
\* left add up to that number.
C18DrawsRangeSize ==
  /\ shuf.pc = "returned"
       => shuf.draws = (IF shuf.max >= shuf.min THEN shuf.max - shuf.min ELSE 0)
  /\ shuf.pc = "loop"
       => shuf.draws + (IF shuf.i > 0 THEN shuf.i ELSE 0)
            = (IF shuf.max >= shuf.min THEN shuf.max - shuf.min ELSE 0)

\* A call that asked for fewer numbers than the range holds and drew for the
\* whole range.
C18Witness ==
  /\ shuf.pc = "returned"
  /\ shuf.draws = shuf.max - shuf.min
  /\ shuf.draws >= 2
  /\ shuf.count < shuf.draws

(***************************************************************************)
(* Properties of LotteryApp.generateNumbers.                               *)
(***************************************************************************)
RunInProgress == ui.pc \in {"fetch", "generate649", "generateMax"}

\* What the page shows during a run and after it.
PageFollowsRun ==
  /\ RunInProgress => (ui.loading /\ ui.disabled)
  /\ ui.pc = "ended"
       => /\ ~ui.loading
          /\ ~ui.disabled
          /\ ui.failed => (ui.errorShown /\ ui.displayed # ui.run)
          /\ ~ui.failed => (~ui.errorShown /\ ui.displayed = ui.run)

\* C20: while a run is in progress the loading indicator is visible and the
\* button disabled; every run whose fetch settles ends, with the indicator
\* hidden and the button enabled, on failure with the error message shown and
\* no new results displayed.
C20RunEndsClean ==
  /\ []PageFollowsRun
  /\ (ui.pc = "fetch" /\ net.promise.state # "pending") ~> (ui.pc = "ended")

\* A second run that failed after a first that displayed its results.
C20Witness ==
  /\ ui.pc = "ended"
  /\ ui.failed
  /\ ui.run = 2
  /\ ui.displayed = 1
  /\ ui.errorShown


\* C21: at most one generateNumbers run is in progress at any time: a run is in
\* progress exactly while the button is disabled, so neither the automatic run
\* nor a run started by a click begins while another has not returned.
C21RunsNeverOverlap ==
  /\ ui.active \in {0, 1}
  /\ ui.active = 1 <=> RunInProgress
  /\ ui.active = 1 <=> ui.disabled

\* A run started by a click, in progress after the automatic run has returned.
C21Witness == ui.run = 2 /\ ui.active = 1 /\ ui.pc = "generate649"


(***************************************************************************)
(* Properties of the pipeline from BeaconService to LotteryGenerator.      *)
(***************************************************************************)
\* C22: every outputValue fetchLatestBeacon resolves with is decoded by
\* hexToBytes without error, and no run of the application fails with an
\* encoding error.
C22AcceptedValueDecodes ==
  /\ net.promise.state = "fulfilled"
       => hexToBytes(net.promise.value.pulse.outputValue.str).ok
  /\ (ui.pc = "ended" /\ ui.failed)
       => \A k \in 1..Len(ui.errorText) : ui.errorText[k] \notin InvalidEncodingMessages


(***************************************************************************)
(* The frame of a draw.                                                    *)
(***************************************************************************)
\* The state words a draw leaves alone: seed, constants, and words 14 and 15.
FrameWords == (0..11) \cup {14, 15}

\* C24: after any number of draws the state words 0..11, 14 and 15 have the
\* values construction gave them, and the state array a block was computed
\* from is, counter apart, the state array after the refill: chachaBlock did
\* not write to it.
C24DrawKeepsFrame ==
  /\ stream.pc = "drawing"
       => \A i \in FrameWords : stream.gen.state[i] = InitialState(stream.seed)[i]
  /\ stream.blocks >= 1
       => \A i \in FrameWords : stream.gen.state[i] = stream.input[i]

\* Thirty-three draws, three blocks, of a generator seeded with 32 bytes.
C24Witness ==
  /\ stream.draws = 33
  /\ stream.blocks = 3
  /\ stream.seed = DigestB
  /\ stream.gen.state[0] = W32(Half - 1, Half - 1)


(***************************************************************************)
(* Properties of the display.                                              *)
(***************************************************************************)
\* The numbers of the most recent displayResults call shown in container id.
LastNumbers(id) == IF id = "numbers649" THEN ui.last.numbers649 ELSE ui.last.numbersMax

\* C23: once displayResults has run and no display timer is pending, every
\* ball shows the number at its index of the most recent successful generation,
\* and the beacon timestamp and output shown are those of that generation,
\* whatever timers of an earlier run were pending when it displayed.
C23DisplayShowsLastGeneration ==
  (ui.displayed >= 1 /\ ui.timers = <<>>)
    => /\ \A id \in ContainerIds : \A k \in 1..BallsPerSet :
            ui.balls[id][k] = ToString(LastNumbers(id)[k])
       /\ ui.beaconTimestamp = LocaleString(ui.last.timestamp)
       /\ ui.beaconOutput = TruncatedOutput(ui.last.outputValue)
       /\ ui.beaconTitle = ui.last.outputValue

\* Both runs displayed, the second while timers of the first were pending, with
\* other numbers and another beacon value; every timer has fired.
C23Witness ==
  /\ ui.displayed = 2
  /\ ui.pendingAtDisplay = 2 * BallsPerSet
  /\ ui.timers = <<>>
  /\ ui.last.numbers649 = <<5, 12, 23, 31, 44, 49>>
  /\ ui.last.outputValue = Repeat("F", MinOutputLength)
  /\ ui.balls["numbers649"][2] = "12"

====
